---- MODULE Spec2Model ----
(***************************************************************************)
(* Model of the image-generation proxies of ai-jersey-designer:            *)
(*   "generateImage"  - netlify/functions/generateImage.js  (Imagen,       *)
(*                      prompt only, callApiWithBackoff)                   *)
(*   "multiModal"     - unnamed/part_001 (Gemini generateContent,          *)
(*                      prompt + logo, callApiWithBackoff)                 *)
(*   "generateJersey" - netlify/functions/generate-jersey.js (single       *)
(*                      fetch, no retry)                                   *)
(*   "appsScript"     - unnamed/part_000, function generateImage (Google   *)
(*                      Apps Script, synchronous retry loop)               *)
(* One behaviour is one invocation.  The invocation is cut at its          *)
(* suspension points: the outbound fetch, the read of the response body    *)
(* (response.text() / response.json()) and the backoff timer.              *)
(***************************************************************************)
EXTENDS Integers, Sequences, FiniteSets, TLC

\* ------------------------------------------------------------------------
\* Bounds of the model
MaxDataLen == 3     \* longest logoData.data string that is enumerated
JitterSteps == 2    \* Math.random()*1000 is sampled at JitterSteps+1 points

\* ------------------------------------------------------------------------
\* Program constants
retries == 3        \* default parameter of callApiWithBackoff
MAX_RETRIES == 3    \* Apps Script generateImage

Undefined == "<undefined>"
ImageB64 == "iVBORw0KGgo="

Variants == {"generateImage", "multiModal", "generateJersey", "appsScript"}
BackoffVariants == {"generateImage", "multiModal"}
HandlerVariants == {"generateImage", "multiModal", "generateJersey"}

CORS_HEADERS ==
    { <<"Access-Control-Allow-Origin", "*">>,
      <<"Access-Control-Allow-Methods", "POST, OPTIONS">>,
      <<"Access-Control-Allow-Headers", "Content-Type">> }

PreflightHeaders ==
    { <<"Access-Control-Allow-Origin", "*">>,
      <<"Access-Control-Allow-Methods", "POST, OPTIONS">>,
      <<"Access-Control-Allow-Headers", "Content-Type">> }

OriginHeader == { <<"Access-Control-Allow-Origin", "*">> }

NoHeaders == {}

\* ------------------------------------------------------------------------
\* Strings of logoData.data, as sequences of characters
Alphabet == {"d", ","}

DataStrings == UNION { [1..n -> Alphabet] : n \in 0..MaxDataLen }

includes(s, c) == \E k \in 1..Len(s) : s[k] = c

indexOf(s, c) == IF includes(s, c)
                 THEN CHOOSE k \in 1..Len(s) : s[k] = c /\ \A j \in 1..(k-1) : s[j] # c
                 ELSE 0

\* String.prototype.split: the list of the pieces between the separators
RECURSIVE split(_, _)
split(s, c) ==
    IF ~includes(s, c) THEN << s >>
    ELSE << SubSeq(s, 1, indexOf(s, c) - 1) >>
         \o split(SubSeq(s, indexOf(s, c) + 1, Len(s)), c)

\* ------------------------------------------------------------------------
\* Inbound requests
Methods == {"OPTIONS", "POST", "GET"}

NoLogo == [kind |-> "undefined", mimeType |-> Undefined, data |-> << >>]

LogoValues == {NoLogo} \cup
    { [kind |-> "object", mimeType |-> "image/png", data |-> d] : d \in DataStrings }

\* event.body: text that is not JSON, the JSON text null, or a JSON object
\* with an optional prompt and an optional logoData
Bodies ==
    { [kind |-> "malformed", prompt |-> Undefined, logoData |-> NoLogo],
      [kind |-> "null", prompt |-> Undefined, logoData |-> NoLogo] } \cup
    { [kind |-> "object", prompt |-> p, logoData |-> l] :
        p \in {Undefined, "", "red jersey"}, l \in LogoValues }

\* !prompt
Falsy(p) == p = Undefined \/ p = ""

\* ------------------------------------------------------------------------
\* Upstream behaviour
Statuses == {200, 429, 500}

ok(status) == status >= 200 /\ status <= 299

QuotaJson == "{\"error\":{\"message\":\"Quota exceeded\"}}"
ErrorTexts == { QuotaJson, "{}", "Service Unavailable" }

\* Parsed JSON of a success body.  predictions / candidates:
\*   "undefined" no such field, "empty" [], "noImage" one element without
\*   image data, "image" one element with image data.
\* ratings: candidates[0].safetyRatings: "undefined", "empty" or "some".
NoValue == [kind |-> "undefined", predictions |-> "undefined",
            candidates |-> "undefined", ratings |-> "undefined"]
JsonNull == [kind |-> "null", predictions |-> "undefined",
             candidates |-> "undefined", ratings |-> "undefined"]
Unparsable == [kind |-> "malformed", predictions |-> "undefined",
               candidates |-> "undefined", ratings |-> "undefined"]

JsonObjects ==
    { [kind |-> "object", predictions |-> p, candidates |-> c, ratings |-> r] :
        p \in {"undefined", "empty", "noImage", "image"},
        c \in {"undefined", "empty", "noImage", "image"},
        r \in {"undefined", "empty", "some"} }

SuccessBodies == {JsonNull, Unparsable} \cup
    { b \in JsonObjects :
        /\ b.candidates \in {"undefined", "empty", "image"} => b.ratings = "undefined"
        /\ b.predictions \in {"empty", "noImage"} => b.candidates = "undefined" }

SafetyRatings == << [category |-> <<"HARM", "CATEGORY", "HARASSMENT">>, probability |-> "HIGH"],
                    [category |-> <<"HARM", "CATEGORY", "DANGEROUS", "CONTENT">>, probability |-> "LOW"] >>

\* One completed exchange: a thrown transport exception, or a response with
\* its body
Outcomes ==
    { [kind |-> "throw", status |-> 0, text |-> "", json |-> NoValue] } \cup
    { [kind |-> "response", status |-> 200, text |-> "", json |-> b] : b \in SuccessBodies } \cup
    { [kind |-> "response", status |-> s, text |-> t, json |-> NoValue] :
        s \in Statuses \ {200}, t \in ErrorTexts }

\* The fetch promise settling: it rejects, or it resolves with a response
\* whose status is known and whose body is still to be read
Settlements ==
    { [kind |-> "throw", status |-> 0] } \cup
    { [kind |-> "response", status |-> s] : s \in Statuses }

\* The read of the body of a response with this status settling: the body
\* arrives, or the stream fails
BodyReads(status) ==
    { [kind |-> "terminated", status |-> status, text |-> "", json |-> NoValue] } \cup
    { o \in Outcomes : o.kind = "response" /\ o.status = status }

\* Math.random() * 1000, in whole milliseconds of [0, 1000)
Jitters == { (k * 999) \div JitterSteps : k \in 0..JitterSteps }

RECURSIVE pow2(_)
pow2(n) == IF n = 0 THEN 1 ELSE 2 * pow2(n - 1)

\* ------------------------------------------------------------------------
\* Exceptions and handler responses.  A text is a sequence of fragments;
\* concatenation is \o.
Err(name, message) == [name |-> name, message |-> message]

NoError == Err("none", << >>)
FetchFailed == Err("TypeError", << "fetch failed" >>)
JsonSyntaxError == Err("SyntaxError", << "Unexpected token in JSON" >>)
BodyTerminated == Err("TypeError", << "terminated" >>)
ReadOfUndefined(prop) ==
    Err("TypeError", << "Cannot read properties of undefined (reading '", prop, "')" >>)
ReadOfNull(prop) ==
    Err("TypeError", << "Cannot read properties of null (reading '", prop, "')" >>)
DestructureNull(source) ==
    Err("TypeError", << "Cannot destructure property 'prompt' of '", source, "' as it is null." >>)

\* new Error(`External API Error ${response.status}: ${errorBody}`)
ExternalApiError(status, errorBody) ==
    Err("Error", << "External API Error ", ToString(status), ": ", errorBody >>)

\* JSON.parse of an upstream error body, and .error?.message of the result
JsonParses(t) == t \in { QuotaJson, "{}" }
ErrorMessageOf(t) == IF t = QuotaJson THEN "Quota exceeded" ELSE Undefined

NoBody == [kind |-> "undefined", key |-> "", value |-> << >>]
TextBody(t) == [kind |-> "text", key |-> "", value |-> << t >>]
JsonBody(k, v) == [kind |-> "json", key |-> k, value |-> v]

Response(statusCode, headers, body) ==
    [statusCode |-> statusCode, headers |-> headers, body |-> body]

NoResponse == Response(0, NoHeaders, NoBody)

\* JSON.parse(event.body) followed by the destructuring of the result, which
\* the code writes as the expression `source`
BodyError(body, source) ==
    CASE body.kind = "malformed" -> JsonSyntaxError
      [] body.kind = "null" -> DestructureNull(source)
      [] OTHER -> NoError

\* r.category.split('_').pop() + ': ' + r.probability, joined with '; '
RECURSIVE FormatRatings(_)
FormatRatings(rs) ==
    IF rs = << >> THEN << >>
    ELSE LET r == Head(rs)
             one == << r.category[Len(r.category)], ": ", r.probability >>
         IN  IF Len(rs) = 1 THEN one ELSE one \o << "; " >> \o FormatRatings(Tail(rs))

RatingsOf(json) ==
    IF json.ratings = "some" THEN SafetyRatings ELSE << >>

\* ------------------------------------------------------------------------
\* State
VARIABLES
    variant,      \* which program runs
    request,      \* event: [httpMethod, body]; Apps Script: body.prompt is the argument
    API_KEY,      \* TRUE iff the credential GEMINI_API_KEY is configured
    pc,           \* "idle", "fetch" (a fetch is in flight), "body" (the body is
                  \* being read), "wait" (backoff timer), "done"
    i,            \* loop index of the retry loop
    fetches,      \* number of fetches issued so far
    inflight,     \* number of fetches issued and not yet completed
    statuses,     \* status of each completed attempt (0 for a thrown exception)
    delays,       \* the backoff waits: [attempt |-> loop index, ms |-> delay]
    clock,        \* time spent in backoff waits so far, in ms
    fetchTimes,   \* clock at which each fetch was issued
    payload,      \* body of the upstream request
    callResult,   \* how callApiWithBackoff ended
    result,       \* the handler's response
    returnValue   \* Apps Script generateImage: "none", "null" or the base64 image

vars == << variant, request, API_KEY, pc, i, fetches, inflight, statuses, delays,
           clock, fetchTimes, payload, callResult, result, returnValue >>

inputs == << variant, request, API_KEY >>
loop == << i, fetches, inflight, statuses, delays, clock, fetchTimes >>

NoPayload == [kind |-> "none", prompt |-> Undefined, mimeType |-> Undefined, data |-> << >>]
PredictPayload(prompt) ==
    [kind |-> "predict", prompt |-> prompt, mimeType |-> Undefined, data |-> << >>]
ContentPayload(prompt, mimeType, data) ==
    [kind |-> "generateContent", prompt |-> prompt, mimeType |-> mimeType, data |-> data]

CallNone == [kind |-> "none", value |-> NoValue, error |-> NoError]
CallPending == [kind |-> "pending", value |-> NoValue, error |-> NoError]
CallReturned(v) == [kind |-> "returned", value |-> v, error |-> NoError]
CallThrew(e) == [kind |-> "threw", value |-> NoValue, error |-> e]

Init ==
    /\ variant \in Variants
    /\ request \in [httpMethod : Methods, body : Bodies]
    /\ variant = "appsScript" =>
          /\ request.httpMethod = "POST"
          /\ request.body.kind = "object"
          /\ request.body.logoData = NoLogo
    /\ API_KEY \in BOOLEAN
    /\ pc = "idle"
    /\ i = 0
    /\ fetches = 0
    /\ inflight = 0
    /\ statuses = << >>
    /\ delays = << >>
    /\ clock = 0
    /\ fetchTimes = << >>
    /\ payload = NoPayload
    /\ callResult = CallNone
    /\ result = NoResponse
    /\ returnValue = "none"

\* The invocation ends with the response r
Finish(r) ==
    /\ pc' = "done"
    /\ result' = r

\* ------------------------------------------------------------------------
\* generateImage.js and part_001: the catch block of the handler

\* error.message, or the message of the upstream error it wraps
UnwrapMessage(error) ==
    LET m == error.message
        matched == Len(m) = 4 /\ m[1] = "External API Error " /\ m[3] = ": "
    IN  IF matched /\ m[4] # "" /\ JsonParses(m[4]) /\ ~Falsy(ErrorMessageOf(m[4]))
        THEN << ErrorMessageOf(m[4]) >>
        ELSE m

HandlerCatch(error) ==
    Response(500, CORS_HEADERS,
             JsonBody("error", << "Generation Error: Failed to generate image. " >>
                               \o UnwrapMessage(error)))

\* candidates?.[0]?.safetyRatings?.map(...).join('; '): << >> stands for
\* both undefined and the empty string, which the code treats alike
SafetyRatingText(json) ==
    IF json.candidates \in {"noImage", "image"} THEN FormatRatings(RatingsOf(json)) ELSE << >>

ExtractionFailure(json) ==
    LET safetyRating == SafetyRatingText(json)
        errorMessage ==
            IF safetyRating # << >>
            THEN << "Image was filtered by safety systems. Ratings: " >> \o safetyRating
            ELSE << "Could not extract image data from API response (check Netlify logs for full response)." >>
    IN  Response(500, CORS_HEADERS, JsonBody("error", << "Generation Error: " >> \o errorMessage))

\* generateImage.js, after callApiWithBackoff has returned `response`
GenerateImageExtract(response) ==
    CASE response.kind = "undefined" -> HandlerCatch(ReadOfUndefined("predictions"))
      [] response.kind = "null" -> HandlerCatch(ReadOfNull("predictions"))
      [] OTHER ->
           IF response.predictions = "image"
           THEN Response(200, CORS_HEADERS,
                         JsonBody("imageUrl", << "data:image/png;base64,", ImageB64 >>))
           ELSE ExtractionFailure(response)

InputRejectedMessage ==
    << "Generation Error: The input or prompt may violate safety guidelines, or the model failed to generate output." >>

\* only a missing candidates field counts, an empty list does not
NoCandidatesOnlyMissing(response) == response.candidates = "undefined"

\* (response.candidates || []).length === 0
NoCandidates(response) == response.candidates \in {"undefined", "empty"}

\* part_001, after callApiWithBackoff has returned `response`
MultiModalExtract(response) ==
    IF response.kind = "object" /\ response.candidates = "image"
    THEN Response(200, CORS_HEADERS,
                  JsonBody("imageUrl", << "data:image/png;base64,", ImageB64 >>))
    ELSE CASE response.kind = "undefined" -> HandlerCatch(ReadOfUndefined("candidates"))
           [] response.kind = "null" -> HandlerCatch(ReadOfNull("candidates"))
           [] OTHER ->
                IF NoCandidates(response)
                THEN Response(400, CORS_HEADERS, JsonBody("error", InputRejectedMessage))
                ELSE ExtractionFailure(response)

AfterCall(v, response) ==
    IF v = "generateImage" THEN GenerateImageExtract(response) ELSE MultiModalExtract(response)

\* ------------------------------------------------------------------------
\* callApiWithBackoff (generateImage.js and part_001, same text)

\* the loop test off by one: i <= retries
LoopContinuesInclusive(k) == k <= retries

\* for (...; i < retries; ...)
LoopContinues(k) == k < retries

\* a delay that does not grow with the attempt
BackoffDelayFlat(k, jitter) == 1000 + jitter

\* Math.pow(2, i) * 1000 + Math.random() * 1000
BackoffDelay(k, jitter) == pow2(k) * 1000 + jitter

\* catch (error) { if (i === retries - 1) throw error; }
Caught(k, error) ==
    IF k = retries - 1 THEN [next |-> "throw", error |-> error]
                       ELSE [next |-> "retry", error |-> error]

\* The body of the loop once the fetch of attempt k has settled with o:
\* for a status other than 429 the body is read next
OnSettled(k, o) ==
    IF o.kind = "throw" THEN Caught(k, FetchFailed)
    ELSE IF o.status = 429 THEN [next |-> "wait", error |-> NoError]
    ELSE [next |-> "body", error |-> NoError]

\* The body of the loop once the body read of attempt k has settled with b.
\* `await response.text()` is inside the try; the promise of
\* `return response.json()` is not awaited there, so its rejection leaves
\* callApiWithBackoff whatever k is
OnBodyRead(k, status, b) ==
    IF ~ok(status)
    THEN IF b.kind = "terminated" THEN Caught(k, BodyTerminated)
         ELSE Caught(k, ExternalApiError(status, b.text))
    ELSE IF b.kind = "terminated" THEN [next |-> "throw", error |-> BodyTerminated]
    ELSE IF b.json.kind = "malformed" THEN [next |-> "throw", error |-> JsonSyntaxError]
    ELSE [next |-> "return", error |-> NoError]

\* ------------------------------------------------------------------------
\* Steps shared by the actions

\* return r before any upstream call
ReturnEarly(r) ==
    /\ Finish(r)
    /\ UNCHANGED << loop, payload, callResult, returnValue >>

\* fetch of attempt k is issued at time now; settled = 1 when the step that
\* issues it is the one in which the previous fetch completed
IssueFetch(k, settled, now) ==
    /\ pc' = "fetch"
    /\ i' = k
    /\ fetches' = fetches + 1
    /\ inflight' = inflight - settled + 1
    /\ fetchTimes' = Append(fetchTimes, now)

\* the first upstream call, carrying payload p
CallUpstream(p, c) ==
    /\ payload' = p
    /\ callResult' = c
    /\ IssueFetch(0, 0, clock)
    /\ UNCHANGED << statuses, delays, clock, result, returnValue >>

\* the credential test left out
KeyMissingIgnored == FALSE

\* if (!API_KEY)
KeyMissing == ~API_KEY

ConfigErrorBody == JsonBody("error", << "CRITICAL: API Key not configured on the server." >>)

\* ------------------------------------------------------------------------
\* generateImage.js: exports.handler up to the first fetch
GenerateImageHandler ==
    /\ pc = "idle"
    /\ variant = "generateImage"
    /\ LET body == request.body
       IN  IF request.httpMethod = "OPTIONS"
             THEN ReturnEarly(Response(200, CORS_HEADERS, NoBody))
           ELSE IF request.httpMethod # "POST"
             THEN ReturnEarly(Response(405, CORS_HEADERS, TextBody("Method Not Allowed")))
           ELSE IF KeyMissing
             THEN ReturnEarly(Response(500, CORS_HEADERS, ConfigErrorBody))
           ELSE IF BodyError(body, "JSON.parse(...)") # NoError
             THEN ReturnEarly(HandlerCatch(BodyError(body, "JSON.parse(...)")))
           ELSE IF Falsy(body.prompt)
             THEN ReturnEarly(Response(400, CORS_HEADERS, TextBody("Missing prompt")))
           ELSE CallUpstream(PredictPayload(body.prompt), CallPending)
    /\ UNCHANGED inputs

\* part_001: rawBase64Data, the logo data with its data-URI prefix removed
StripPrefix(data) ==
    IF includes(data, ",") THEN split(data, ",")[2] ELSE data

\* part_001: exports.handler up to the first fetch
MultiModalHandler ==
    /\ pc = "idle"
    /\ variant = "multiModal"
    /\ LET body == request.body
           logoData == body.logoData
       IN  IF request.httpMethod = "OPTIONS"
             THEN ReturnEarly(Response(200, CORS_HEADERS, NoBody))
           ELSE IF request.httpMethod # "POST"
             THEN ReturnEarly(Response(405, CORS_HEADERS, TextBody("Method Not Allowed")))
           ELSE IF KeyMissing
             THEN ReturnEarly(Response(500, CORS_HEADERS, ConfigErrorBody))
           ELSE IF BodyError(body, "JSON.parse(...)") # NoError
             THEN ReturnEarly(HandlerCatch(BodyError(body, "JSON.parse(...)")))
           ELSE IF Falsy(body.prompt)
             THEN ReturnEarly(Response(400, CORS_HEADERS, TextBody("Missing prompt")))
           ELSE IF logoData.kind = "undefined"
             THEN ReturnEarly(HandlerCatch(ReadOfUndefined("data")))
           ELSE CallUpstream(ContentPayload(body.prompt, logoData.mimeType,
                                            StripPrefix(logoData.data)), CallPending)
    /\ UNCHANGED inputs

\* callApiWithBackoff ends: the handler goes on with c and answers r
EndCall(c, r, settled) ==
    /\ callResult' = c
    /\ Finish(r)
    /\ inflight' = inflight - settled
    /\ UNCHANGED << i, fetches, fetchTimes >>

\* i++ and the loop test; falling out of the loop returns undefined
AdvanceLoop(k, settled, now) ==
    IF LoopContinues(k)
    THEN /\ IssueFetch(k, settled, now)
         /\ UNCHANGED << callResult, result >>
    ELSE /\ i' = k
         /\ callResult' = CallReturned(NoValue)
         /\ Finish(AfterCall(variant, NoValue))
         /\ inflight' = inflight - settled
         /\ UNCHANGED << fetches, fetchTimes >>

\* callApiWithBackoff: the fetch promise of attempt i settles
CallApiFetchSettled ==
    /\ pc = "fetch"
    /\ variant \in BackoffVariants
    /\ \E o \in Settlements, jitter \in Jitters :
         LET d == OnSettled(i, o)
         IN  /\ statuses' = Append(statuses, o.status)
             /\ CASE d.next = "wait" ->
                       /\ pc' = "wait"
                       /\ delays' = Append(delays, [attempt |-> i, ms |-> BackoffDelay(i, jitter)])
                       /\ inflight' = inflight - 1
                       /\ UNCHANGED << i, fetches, clock, fetchTimes, callResult, result >>
                  [] d.next = "body" ->
                       /\ pc' = "body"
                       /\ inflight' = inflight - 1
                       /\ UNCHANGED << i, fetches, delays, clock, fetchTimes, callResult, result >>
                  [] d.next = "retry" ->
                       /\ AdvanceLoop(i + 1, 1, clock)
                       /\ UNCHANGED << delays, clock >>
                  [] d.next = "throw" ->
                       /\ EndCall(CallThrew(d.error), HandlerCatch(d.error), 1)
                       /\ UNCHANGED << delays, clock >>
    /\ UNCHANGED << inputs, payload, returnValue >>

\* callApiWithBackoff: response.text() or response.json() of attempt i settles
CallApiBodyRead ==
    /\ pc = "body"
    /\ variant \in BackoffVariants
    /\ \E b \in BodyReads(statuses[Len(statuses)]) :
         LET d == OnBodyRead(i, statuses[Len(statuses)], b)
         IN  CASE d.next = "retry" -> AdvanceLoop(i + 1, 0, clock)
               [] d.next = "throw" -> EndCall(CallThrew(d.error), HandlerCatch(d.error), 0)
               [] d.next = "return" -> EndCall(CallReturned(b.json), AfterCall(variant, b.json), 0)
    /\ UNCHANGED << inputs, statuses, delays, clock, payload, returnValue >>

\* callApiWithBackoff: the backoff timer fires, `continue`
CallApiBackoffElapsed ==
    /\ pc = "wait"
    /\ variant \in BackoffVariants
    /\ clock' = clock + delays[Len(delays)].ms
    /\ AdvanceLoop(i + 1, 0, clock + delays[Len(delays)].ms)
    /\ UNCHANGED << inputs, statuses, delays, payload, returnValue >>

\* ------------------------------------------------------------------------
\* generate-jersey.js

JerseyCatch(error) ==
    Response(500, OriginHeader,
             JsonBody("error", << "Internal server error: " >> \o error.message))

\* exports.handler up to the fetch
GenerateJerseyHandler ==
    /\ pc = "idle"
    /\ variant = "generateJersey"
    /\ LET body == request.body
           logoData == body.logoData
       IN  IF request.httpMethod = "OPTIONS"
             THEN ReturnEarly(Response(200, PreflightHeaders, NoBody))
           ELSE IF KeyMissing
             THEN ReturnEarly(Response(500, NoHeaders, ConfigErrorBody))
           ELSE IF request.httpMethod # "POST"
             THEN ReturnEarly(Response(405, NoHeaders, JsonBody("error", << "Method Not Allowed" >>)))
           ELSE IF BodyError(body, "body") # NoError
             THEN ReturnEarly(JerseyCatch(BodyError(body, "body")))
           ELSE IF logoData.kind = "undefined"
             THEN ReturnEarly(JerseyCatch(ReadOfUndefined("mimeType")))
           ELSE CallUpstream(ContentPayload(body.prompt, logoData.mimeType, logoData.data),
                             CallNone)
    /\ UNCHANGED inputs

\* exports.handler from the settled read of the body to the response
JerseyAfterFetch(o) ==
    IF o.kind = "terminated" THEN JerseyCatch(BodyTerminated)
    ELSE IF ~ok(o.status)
      THEN IF ~JsonParses(o.text) THEN JerseyCatch(JsonSyntaxError)
           ELSE Response(o.status, OriginHeader,
                         JsonBody("error",
                                  IF Falsy(ErrorMessageOf(o.text))
                                  THEN << "Gemini API call failed." >>
                                  ELSE << ErrorMessageOf(o.text) >>))
    ELSE IF o.json.kind = "malformed" THEN JerseyCatch(JsonSyntaxError)
    ELSE IF o.json.kind = "object" /\ o.json.candidates = "image"
      THEN Response(200, OriginHeader, JsonBody("base64Data", << ImageB64 >>))
    ELSE Response(500, OriginHeader,
                  JsonBody("error", << "Image generation failed to return data." >>))

\* await fetch(GEMINI_API_URL, ...) settles
GenerateJerseyFetchSettled ==
    /\ pc = "fetch"
    /\ variant = "generateJersey"
    /\ \E o \in Settlements :
         /\ statuses' = Append(statuses, o.status)
         /\ IF o.kind = "throw"
            THEN Finish(JerseyCatch(FetchFailed))
            ELSE pc' = "body" /\ UNCHANGED result
    /\ inflight' = inflight - 1
    /\ UNCHANGED << inputs, i, fetches, delays, clock, fetchTimes, payload,
                    callResult, returnValue >>

\* await apiResponse.json() settles
GenerateJerseyBodyRead ==
    /\ pc = "body"
    /\ variant = "generateJersey"
    /\ \E b \in BodyReads(statuses[Len(statuses)]) :
         Finish(JerseyAfterFetch(b))
    /\ UNCHANGED << inputs, loop, payload, callResult, returnValue >>

\* ------------------------------------------------------------------------
\* part_000: Apps Script generateImage(prompt)

\* return v
AppsReturn(v, settled) ==
    /\ pc' = "done"
    /\ returnValue' = v
    /\ inflight' = inflight - settled
    /\ UNCHANGED << i, fetches, fetchTimes, delays >>

\* return null; // All retries failed
AppsReturnAfterLoop ==
    /\ pc' = "done"
    /\ returnValue' = "null"
    /\ UNCHANGED << fetches, inflight, fetchTimes, delays >>

\* Math.pow(2, i) * 1000
AppsDelay(k) == pow2(k) * 1000

\* responseCode === 429 && i < MAX_RETRIES - 1
AppsRetries(k, status) == status = 429 /\ k < MAX_RETRIES - 1

\* the value returned for a response with code 200
AppsResult(json) ==
    IF json.kind = "object" /\ json.predictions = "image" THEN ImageB64 ELSE "null"

\* generateImage up to the first UrlFetchApp.fetch
AppsScriptGenerateImage ==
    /\ pc = "idle"
    /\ variant = "appsScript"
    /\ IF KeyMissing \/ Falsy(request.body.prompt)
       THEN /\ AppsReturn("null", 0)
            /\ UNCHANGED << statuses, clock, payload >>
       ELSE /\ payload' = PredictPayload(request.body.prompt)
            /\ IssueFetch(0, 0, clock)
            /\ UNCHANGED << statuses, delays, clock, returnValue >>
    /\ UNCHANGED << inputs, callResult, result >>

\* UrlFetchApp.fetch of attempt i returns or throws
AppsScriptFetchReturned ==
    /\ pc = "fetch"
    /\ variant = "appsScript"
    /\ \E o \in Outcomes :
         /\ statuses' = Append(statuses, o.status)
         /\ IF o.kind = "throw" THEN AppsReturn("null", 1)
            ELSE IF o.status = 200 THEN AppsReturn(AppsResult(o.json), 1)
            ELSE IF AppsRetries(i, o.status)
              THEN /\ pc' = "wait"
                   /\ delays' = Append(delays, [attempt |-> i, ms |-> AppsDelay(i)])
                   /\ inflight' = inflight - 1
                   /\ UNCHANGED << i, fetches, fetchTimes, returnValue >>
            ELSE AppsReturn("null", 1)
    /\ UNCHANGED << inputs, clock, payload, callResult, result >>

\* Utilities.sleep(delay) returns; i++ and the loop test
AppsScriptSleepReturned ==
    /\ pc = "wait"
    /\ variant = "appsScript"
    /\ clock' = clock + delays[Len(delays)].ms
    /\ IF i + 1 < MAX_RETRIES
       THEN /\ IssueFetch(i + 1, 0, clock + delays[Len(delays)].ms)
            /\ UNCHANGED << delays, returnValue >>
       ELSE /\ i' = i + 1
            /\ AppsReturnAfterLoop
    /\ UNCHANGED << inputs, statuses, payload, callResult, result >>

\* ------------------------------------------------------------------------
Next ==
    \/ GenerateImageHandler
    \/ MultiModalHandler
    \/ CallApiFetchSettled
    \/ CallApiBodyRead
    \/ CallApiBackoffElapsed
    \/ GenerateJerseyHandler
    \/ GenerateJerseyFetchSettled
    \/ GenerateJerseyBodyRead
    \/ AppsScriptGenerateImage
    \/ AppsScriptFetchReturned
    \/ AppsScriptSleepReturned

Spec == Init /\ [][Next]_vars

\* ------------------------------------------------------------------------
\* Properties

Posted == variant \in HandlerVariants /\ request.httpMethod = "POST"

\* a completed attempt's status is neither 429 nor 2xx (0 marks an exception)
NonRetryable(status) == status # 0 /\ status # 429 /\ ~ok(status)

\* C1: in callApiWithBackoff, a status that is neither 429 nor 2xx on attempt
\* k (counted from 1 here) makes the call fail, once the body is read, with
\* an error carrying that status and body (or the failure of the body read),
\* and no further fetch is issued: exactly k fetches.
C1_NonRetryableFailsAtOnce ==
    variant \in BackoffVariants =>
        \A k \in 1..Len(statuses) :
            NonRetryable(statuses[k]) =>
                /\ fetches = k
                /\ pc \in {"body", "done"}
                /\ pc = "done" =>
                      /\ callResult.kind = "threw"
                      /\ \/ \E t \in ErrorTexts :
                               callResult.error = ExternalApiError(statuses[k], t)
                         \/ callResult.error = BodyTerminated

AllRateLimited ==
    /\ variant \in BackoffVariants
    /\ pc = "done"
    /\ Len(statuses) = retries
    /\ \A k \in 1..Len(statuses) : statuses[k] = 429

\* C2: when every one of the `retries` attempts is answered 429,
\* callApiWithBackoff ends by throwing; it never returns without a value.
C2_ExhaustionThrows ==
    AllRateLimited => callResult.kind = "threw"

RetryBudget == IF variant = "appsScript" THEN MAX_RETRIES ELSE retries

JitterRange == IF variant = "appsScript" THEN 1 ELSE 1000

\* C3: in the retry loops with budget R, a 429 on attempt k < R (counted from
\* 1) is followed by one wait of 2^(k-1)*1000 ms (plus a jitter below 1000 ms
\* in the Netlify variants) and then by attempt k+1, issued no earlier than
\* that delay after attempt k; the delays of successive waits are strictly
\* increasing; there is never an attempt beyond the R-th.
C3_BackoffSchedule ==
    variant \in BackoffVariants \cup {"appsScript"} =>
        /\ \A k \in 1..Len(statuses) :
              (statuses[k] = 429 /\ k < RetryBudget) =>
                  /\ \E j \in 1..Len(delays) :
                        /\ delays[j].attempt = k - 1
                        /\ delays[j].ms >= pow2(k - 1) * 1000
                        /\ delays[j].ms < pow2(k - 1) * 1000 + JitterRange
                        /\ Len(fetchTimes) > k =>
                              fetchTimes[k + 1] >= fetchTimes[k] + delays[j].ms
                  /\ Len(fetchTimes) > k \/ (pc = "wait" /\ k = Len(statuses))
        /\ \A j1, j2 \in 1..Len(delays) :
              j1 < j2 => /\ delays[j1].attempt < delays[j2].attempt
                         /\ delays[j1].ms < delays[j2].ms
        /\ fetches <= RetryBudget
        /\ Len(fetchTimes) = fetches

C3_Witness ==
    /\ variant \in BackoffVariants
    /\ Len(statuses) >= 2
    /\ statuses[1] = 429
    /\ statuses[2] = 429
    /\ fetches = 3
    /\ Len(delays) >= 2

\* C4: one invocation of callApiWithBackoff issues at most `retries` fetches,
\* whatever the upstream outcomes, and never has two fetches in flight.
C4_BoundedSequentialFetches ==
    variant \in BackoffVariants =>
        /\ fetches <= retries
        /\ inflight \in {0, 1}
        /\ inflight = 1 <=> pc = "fetch"

C4_Witness ==
    /\ variant \in BackoffVariants
    /\ pc = "done"
    /\ fetches = retries
    /\ statuses = << 0, 500, 429 >>

PromptOnlyRequest ==
    /\ Posted
    /\ API_KEY
    /\ request.body.kind = "object"
    /\ ~Falsy(request.body.prompt)
    /\ request.body.logoData = NoLogo

\* C5: a POST with the credential configured, a non-empty prompt and no
\* logoData leads to an upstream call whose payload carries the prompt and no
\* image.
C5_PromptOnlyPayload ==
    (PromptOnlyRequest /\ pc # "idle") =>
        /\ fetches >= 1
        /\ payload.kind # "none"
        /\ payload.prompt = request.body.prompt
        /\ payload.mimeType = Undefined
        /\ payload.data = << >>

\* the substring after the first comma; the whole string when it has none
AfterFirstComma(s) ==
    IF includes(s, ",") THEN SubSeq(s, indexOf(s, ",") + 1, Len(s)) ELSE s

\* C6: in part_001 and generate-jersey.js the inlineData.data forwarded
\* upstream is logoData.data after its first comma, or unchanged when it has
\* no comma.
C6_DataAfterFirstComma ==
    (variant \in {"multiModal", "generateJersey"} /\ payload.kind = "generateContent") =>
        payload.data = AfterFirstComma(request.body.logoData.data)

\* C7: a POST with the credential configured whose JSON body has a missing or
\* empty prompt is answered 400, and no fetch is issued.
C7_MissingPromptIs400 ==
    (/\ Posted
     /\ API_KEY
     /\ request.body.kind = "object"
     /\ Falsy(request.body.prompt)
     /\ pc # "idle") =>
        /\ pc = "done"
        /\ result.statusCode = 400
        /\ fetches = 0

\* C8: a POST made while the credential is absent is answered 500 with the
\* configuration-error body, whatever the request body, and no fetch is
\* issued.
C8_MissingCredentialIs500 ==
    (Posted /\ ~API_KEY /\ pc # "idle") =>
        /\ pc = "done"
        /\ result.statusCode = 500
        /\ result.body = ConfigErrorBody
        /\ fetches = 0

C8_Witness ==
    /\ variant = "generateJersey"
    /\ request.httpMethod = "POST"
    /\ request.body.kind = "malformed"
    /\ ~API_KEY
    /\ pc = "done"
    /\ result.statusCode = 500

\* C9: every response of every handler variant carries the header
\* Access-Control-Allow-Origin: *.
C9_AllowOriginEverywhere ==
    (variant \in HandlerVariants /\ pc = "done") =>
        << "Access-Control-Allow-Origin", "*" >> \in result.headers

SafetyFiltered(r) ==
    /\ r.body.kind = "json"
    /\ r.body.key = "error"
    /\ Len(r.body.value) >= 2
    /\ r.body.value[2] = "Image was filtered by safety systems. Ratings: "

UnknownShape(r) ==
    /\ r.body.kind = "json"
    /\ r.body.key = "error"
    /\ Len(r.body.value) >= 2
    /\ r.body.value[2] = "Could not extract image data from API response (check Netlify logs for full response)."

\* C10: in part_001, when the upstream call returns a response whose
\* candidates list is empty, the handler answers 400 with the input-rejected
\* reason, never the safety-filtered or unknown-shape reason; the
\* safety-filtered reason occurs only with a non-empty candidates list.
C10_EmptyCandidatesRejected ==
    (/\ variant = "multiModal"
     /\ pc = "done"
     /\ callResult.kind = "returned"
     /\ callResult.value.kind = "object") =>
        /\ callResult.value.candidates = "empty" =>
              /\ result.statusCode = 400
              /\ result.body = JsonBody("error", InputRejectedMessage)
              /\ ~SafetyFiltered(result)
              /\ ~UnknownShape(result)
        /\ SafetyFiltered(result) => callResult.value.candidates \in {"noImage", "image"}

C10_Witness ==
    /\ variant = "multiModal"
    /\ pc = "done"
    /\ callResult.kind = "returned"
    /\ callResult.value.kind = "object"
    /\ callResult.value.candidates = "empty"
    /\ result.statusCode = 400

\* the invocation ended with the preflight answer or with an image
Succeeded ==
    \/ request.httpMethod = "OPTIONS"
    \/ result.body.kind = "json" /\ result.body.key \in {"imageUrl", "base64Data"}

\* C11: an invocation of a handler that does not succeed still returns a
\* response, whose status is not 200 and whose body is a JSON object
\* {error: message}, for every method, request body and upstream behaviour.
C11_FailuresAreJsonErrors ==
    (variant \in HandlerVariants /\ pc = "done" /\ ~Succeeded) =>
        /\ result # NoResponse
        /\ result.statusCode # 200
        /\ result.body.kind = "json"
        /\ result.body.key = "error"

\* C12: a request whose method is neither OPTIONS nor POST is answered 405,
\* with or without the credential, and no fetch is issued.
C12_MethodBeforeCredential ==
    (/\ variant \in HandlerVariants
     /\ request.httpMethod \notin {"OPTIONS", "POST"}
     /\ pc # "idle") =>
        /\ pc = "done"
        /\ result.statusCode = 405
        /\ fetches = 0

\* the longest delay the loop can wait after attempt k (counted from 0)
MaxDelayAfter(k) == pow2(k) * 1000 + (JitterRange - 1)

RECURSIVE SumOfDelays(_)
SumOfDelays(n) == IF n = 0 THEN 0 ELSE SumOfDelays(n - 1) + MaxDelayAfter(n - 1)

\* C13: in every retry loop with budget R a wait happens only when another
\* attempt follows: no wait after attempt R-1, at most R-1 waits, and the
\* time spent waiting is at most the sum of the delays before attempts
\* 1..R-1.
C13_NoWaitAfterLastAttempt ==
    variant \in BackoffVariants \cup {"appsScript"} =>
        /\ \A j \in 1..Len(delays) : delays[j].attempt < RetryBudget - 1
        /\ Len(delays) <= RetryBudget - 1
        /\ clock <= SumOfDelays(RetryBudget - 1)

====
